---------------------------- MODULE Spec2Model ----------------------------
(***************************************************************************)
(* A model of the HTTP request-line parser (src/inc/request_line.hpp) and  *)
(* of the per-connection request handler (src/inc/server.hpp).             *)
(*                                                                         *)
(* Byte strings are sequences of one-character strings.  Positions that    *)
(* the source keeps as std::size_t (index, offsets) are 0-based here as in *)
(* the source; TLA+ sequences are 1-based, so byte i of the source is      *)
(* s[i + 1].                                                               *)
(***************************************************************************)
EXTENDS Integers, Sequences, FiniteSets, TLC

(***************************************************************************)
(* Byte-string literals.                                                   *)
(***************************************************************************)
SP == " "
HTAB == "\t"
CR == "\r"
LF == "\n"
CRLF == <<"\r", "\n">>
S_GET == <<"G", "E", "T">>
S_POST == <<"P", "O", "S", "T">>
S_PUT == <<"P", "U", "T">>
S_DELETE == <<"D", "E", "L", "E", "T", "E">>
S_OPTIONS == <<"O", "P", "T", "I", "O", "N", "S">>
S_HEAD == <<"H", "E", "A", "D">>
S_TRACE == <<"T", "R", "A", "C", "E">>
S_CONNECT == <<"C", "O", "N", "N", "E", "C", "T">>
S_FOO == <<"F", "O", "O">>
S_get == <<"g", "e", "t">>
S_Get == <<"G", "e", "t">>
S_HTTP == <<"H", "T", "T", "P", "/">>
S_http == <<"h", "t", "t", "p", "/">>
S_HostHdr == <<"H", "o", "s", "t", ":", " ", "x", "\r", "\n", "\r", "\n">>
S_LfThenCrlf == <<"a", "\n", "b", "\r", "\n">>
S_api == <<"/", "a", "p", "i">>
D_01 == <<"0", "1">>
D_10 == <<"1", "0">>
D_u32max == <<"4", "2", "9", "4", "9", "6", "7", "2", "9", "5">>
D_u32max1 == <<"4", "2", "9", "4", "9", "6", "7", "2", "9", "6">>
D_u32max2 == <<"4", "2", "9", "4", "9", "6", "7", "2", "9", "7">>
D_u64max == <<"1", "8", "4", "4", "6", "7", "4", "4", "0", "7", "3", "7", "0", "9", "5", "5", "1", "6", "1", "5">>
D_u64max1 == <<"1", "8", "4", "4", "6", "7", "4", "4", "0", "7", "3", "7", "0", "9", "5", "5", "1", "6", "1", "6">>

(***************************************************************************)
(* Character classes of the regular expression (ECMAScript grammar,        *)
(* classic locale): \s is the ctype "space" class, \d the decimal digits.  *)
(***************************************************************************)
\* The vertical tab (byte 0x0B) has no TLA+ escape; it is named by a token.
VT == "<0x0B>"

Digits == <<"0", "1", "2", "3", "4", "5", "6", "7", "8", "9">>

DigitVal(c) == (CHOOSE d \in 1..10 : Digits[d] = c) - 1

WhiteSpace == {" ", "\t", "\n", "\r", "\f", VT}

DecimalDigits == {Digits[d] : d \in 1..10}

Min(S) == CHOOSE x \in S : \A y \in S : x <= y

\* The end of the greedy run a quantified class matches from position i
\* (1-based): the first j >= i whose byte is outside the class, or Len(s) + 1.
\* The class is the set class when inside, and its complement otherwise.
SpanEnd(s, i, class, inside) ==
    LET stops == {j \in i..Len(s) : (s[j] \in class) # inside}
    IN  IF stops = {} THEN Len(s) + 1 ELSE Min(stops)

(***************************************************************************)
(* string_view::find and string_view::npos.                                *)
(***************************************************************************)
npos == -1

\* request.find("\r\n"): 0-based index of the first CR immediately followed
\* by LF, searched over the whole view.
find_crlf(s) ==
    LET hits == {i \in 1..(Len(s) - 1) : s[i] = CR /\ s[i + 1] = LF}
    IN  IF hits = {} THEN npos ELSE Min(hits) - 1

\* request.find('\n'): 0-based index of the first LF.
find_lf(s) ==
    LET hits == {i \in 1..Len(s) : s[i] = LF}
    IN  IF hits = {} THEN npos ELSE Min(hits) - 1

\* string_view::substr(pos) and substr(0, n).
substr_from(s, pos) == SubSeq(s, pos + 1, Len(s))

substr_to(s, n) == SubSeq(s, 1, n)

(***************************************************************************)
(* Unsigned integers.  A value is a little-endian sequence of 16-bit       *)
(* limbs: `unsigned' is 32 bits (2 limbs); `unsigned long' is 2 limbs on   *)
(* an ILP32 build and 4 limbs on an LP64 build.                            *)
(***************************************************************************)
LimbBase == 2 ^ 16

UnsignedLimbs == 2

ULongWidths == {UnsignedLimbs, 2 * UnsignedLimbs}

Zero(n) == [i \in 1..n |-> 0]

U32(n) == <<n % LimbBase, n \div LimbBase>>

\* limbs * 10 + carry; the result has one more element than limbs, the last
\* being the carry out of the most significant limb.
RECURSIVE mul10_add(_, _)
mul10_add(limbs, carry) ==
    IF limbs = <<>> THEN <<carry>>
    ELSE LET t == Head(limbs) * 10 + carry
         IN  <<t % LimbBase>> \o mul10_add(Tail(limbs), t \div LimbBase)

RECURSIVE strtoul_acc(_, _, _)
strtoul_acc(digits, acc, ovf) ==
    IF digits = <<>> THEN [value |-> acc, overflow |-> ovf]
    ELSE LET r == mul10_add(acc, DigitVal(Head(digits)))
             n == Len(acc)
         IN  strtoul_acc(Tail(digits), SubSeq(r, 1, n), ovf \/ r[n + 1] # 0)

\* std::stoul on a run of decimal digits: the value, or std::out_of_range
\* when it does not fit unsigned long.
stoul(str, width) ==
    LET r == strtoul_acc(str, Zero(width), FALSE)
    IN  [value |-> r.value, out_of_range |-> r.overflow]

\* static_cast<unsigned>(unsigned long): the low 32 bits.
static_cast_unsigned(v) == SubSeq(v, 1, UnsignedLimbs)

\* Decimal rendering of a 32-bit value (operator<< on unsigned).
RECURSIVE udec(_)
udec(v) ==
    IF v[1] = 0 /\ v[2] = 0 THEN <<>>
    ELSE LET t == (v[2] % 10) * LimbBase + v[1]
         IN  udec(<<t \div 10, v[2] \div 10>>) \o <<Digits[(t % 10) + 1]>>

unsigned_to_stream(v) == IF v[1] = 0 /\ v[2] = 0 THEN <<"0">> ELSE udec(v)

(***************************************************************************)
(* Collaborators declared outside request_line.hpp: the method registry    *)
(* (methods.hpp), the URI value (common.hpp) and the Version value         *)
(* (version.hpp).                                                          *)
(***************************************************************************)
Methods == {"GET", "POST", "PUT", "DELETE", "OPTIONS", "HEAD", "TRACE", "CONNECT"}

\* method::str: the canonical upper-case token of a method.
method_str(m) ==
    CASE m = "GET" -> S_GET
      [] m = "POST" -> S_POST
      [] m = "PUT" -> S_PUT
      [] m = "DELETE" -> S_DELETE
      [] m = "OPTIONS" -> S_OPTIONS
      [] m = "HEAD" -> S_HEAD
      [] m = "TRACE" -> S_TRACE
      [] m = "CONNECT" -> S_CONNECT

\* method::code: the method whose token is byte for byte tok, or the
\* failure UnknownMethod.
method_code(tok) ==
    IF \E m \in Methods : method_str(m) = tok
    THEN [known |-> TRUE, method |-> CHOOSE m \in Methods : method_str(m) = tok]
    ELSE [known |-> FALSE, method |-> "GET"]

\* URI(token): the target is held verbatim; operator<< writes it back.
URI(tok) == tok

uri_to_stream(u) == u

\* operator<< on Version: "HTTP/<major>.<minor>".
version_to_stream(v) ==
    S_HTTP \o unsigned_to_stream(v.major) \o <<".">> \o unsigned_to_stream(v.minor)

Version(maj, min) == [major |-> maj, minor |-> min]

(***************************************************************************)
(* request_line_pattern and std::regex_match over the whole line:          *)
(*   \s*(GET|POST|PUT|DELETE|OPTIONS|HEAD|TRACE|CONNECT) (\S+) HTTP/(\d+)\.(\d+) *)
(* No quantified class can match the byte that has to follow it, so the    *)
(* greedy runs are the only way to match and no backtracking is needed.    *)
(***************************************************************************)
\* The alternation of the first capture group.
MethodAlternation_any(tok) == Len(tok) >= 1

MethodAlternation_short(tok) ==
    tok \in {S_GET, S_POST, S_PUT, S_DELETE, S_OPTIONS, S_HEAD, S_TRACE}

MethodAlternation(tok) ==
    tok \in {S_GET, S_POST, S_PUT, S_DELETE, S_OPTIONS, S_HEAD, S_TRACE, S_CONNECT}

\* \s* : where the leading white space ends.
LeadingSpaceEnd(line) == SpanEnd(line, 1, WhiteSpace, TRUE)

\* The separator after the method and after the target: one space.
IsSeparator_blank(line, p) == p <= Len(line) /\ line[p] \in {SP, HTAB}

IsSeparator(line, p) == p <= Len(line) /\ line[p] = SP

\* What must follow the minor digit run: the end of the line.
AtEnd(line, p) == p = Len(line) + 1

NoMatch == [matched |-> FALSE, m1 |-> <<>>, m2 |-> <<>>, m3 |-> <<>>, m4 |-> <<>>]

regex_match(line) ==
    LET p1 == LeadingSpaceEnd(line)
        p2 == SpanEnd(line, p1, {SP}, FALSE)
        m1 == SubSeq(line, p1, p2 - 1)
        p3 == SpanEnd(line, p2 + 1, WhiteSpace, FALSE)
        m2 == SubSeq(line, p2 + 1, p3 - 1)
        p4 == SpanEnd(line, p3 + 6, DecimalDigits, TRUE)
        m3 == SubSeq(line, p3 + 6, p4 - 1)
        p5 == SpanEnd(line, p4 + 1, DecimalDigits, TRUE)
        m4 == SubSeq(line, p4 + 1, p5 - 1)
    IN  IF /\ MethodAlternation(m1)
           /\ IsSeparator(line, p2)
           /\ Len(m2) >= 1
           /\ IsSeparator(line, p3)
           /\ p3 + 5 <= Len(line)
           /\ SubSeq(line, p3 + 1, p3 + 5) = S_HTTP
           /\ Len(m3) >= 1
           /\ p4 <= Len(line)
           /\ line[p4] = "."
           /\ Len(m4) >= 1
           /\ AtEnd(line, p5)
        THEN [matched |-> TRUE, m1 |-> m1, m2 |-> m2, m3 |-> m3, m4 |-> m4]
        ELSE NoMatch

(***************************************************************************)
(* class Request_line.                                                     *)
(***************************************************************************)
\* The default member initialisers: method_ {GET}, uri_ {"/"}, version_ {1U, 1U}.
DefaultLine == [method_ |-> "GET", uri_ |-> URI(<<"/">>), version_ |-> Version(U32(1), U32(1))]

MinRequestLength == 15

\* The length guard of the constructor.
TooShort_off_by_one(request) == Len(request) = 0 \/ Len(request) < MinRequestLength - 1

TooShort(request) == Len(request) = 0 \/ Len(request) < MinRequestLength

(* What one call Request_line(string_view request) does.  thrown is "" on   *)
(* success and otherwise names the exception that leaves the constructor:  *)
(* the three Request_line_error messages, std::out_of_range from stoul,    *)
(* or the failure of method::code.  value is the constructed object.       *)
(* request is the constructor's own by-value parameter as it stands when   *)
(* the constructor ends; request_line, index and is_canonical_line_ending  *)
(* are its locals.                                                         *)
CtorResult(thrown, value, request, request_line, index, canonical) ==
    [thrown |-> thrown, value |-> value, request |-> request,
     request_line |-> request_line, index |-> index,
     is_canonical_line_ending |-> canonical]

\* Lines 184-191: the terminator search.
FindTerminator_first_lf(request) ==
    LET lf == find_lf(request)
    IN  IF lf = npos THEN [index |-> npos, canonical |-> FALSE]
        ELSE IF lf >= 1 /\ request[lf] = CR
             THEN [index |-> lf - 1, canonical |-> TRUE]
             ELSE [index |-> lf, canonical |-> FALSE]

FindTerminator(request) ==
    IF find_crlf(request) # npos
    THEN [index |-> find_crlf(request), canonical |-> TRUE]
    ELSE [index |-> find_lf(request), canonical |-> FALSE]

\* Lines 214-219: the constructor trims its own copy of the view.
Trim(request, index, canonical) ==
    IF canonical THEN substr_from(request, index + 2) ELSE substr_from(request, index + 1)

\* Lines 210-212: the two digit runs become the version.
DecodeVersion(m3, m4, width) ==
    LET maj == stoul(m3, width)
        min == stoul(m4, width)
    IN  [out_of_range |-> maj.out_of_range \/ min.out_of_range,
         version |-> Version(static_cast_unsigned(maj.value), static_cast_unsigned(min.value))]

Request_line(request, width) ==
    IF TooShort(request)
    THEN CtorResult("Invalid request: ", DefaultLine, request, <<>>, npos, FALSE)
    ELSE
    LET t == FindTerminator(request)
        request_line == substr_to(request, t.index)
        m == regex_match(request_line)
        code == method_code(m.m1)
        v == DecodeVersion(m.m3, m.m4, width)
    IN  IF t.index = npos
        THEN CtorResult("Invalid line-ending", DefaultLine, request, <<>>, npos, FALSE)
        ELSE IF ~m.matched
        THEN CtorResult("Invalid request line: ", DefaultLine, request,
                        request_line, t.index, t.canonical)
        ELSE IF ~code.known
        THEN CtorResult("UnknownMethod", DefaultLine, request,
                        request_line, t.index, t.canonical)
        ELSE IF v.out_of_range
        THEN CtorResult("std::out_of_range", DefaultLine, request,
                        request_line, t.index, t.canonical)
        ELSE CtorResult("", [method_ |-> code.method, uri_ |-> URI(m.m2), version_ |-> v.version],
                        Trim(request, t.index, t.canonical),
                        request_line, t.index, t.canonical)

\* Request_line::to_string.
to_string_lf(l) ==
    method_str(l.method_) \o <<SP>> \o uri_to_stream(l.uri_) \o <<SP>>
        \o version_to_stream(l.version_) \o <<LF>>

to_string(l) ==
    method_str(l.method_) \o <<SP>> \o uri_to_stream(l.uri_) \o <<SP>>
        \o version_to_stream(l.version_) \o CRLF

(***************************************************************************)
(* The inputs.  A buffer is composed of the parts of a request line, the   *)
(* terminator and what follows it; the shapes explored are the canonical   *)
(* line "GET / HTTP/1.1\r\n" with at most MaxDefects parts replaced, and   *)
(* two short buffers.                                                      *)
(***************************************************************************)
MaxDefects == 2

CanonicalShape ==
    [ws |-> <<>>, method |-> S_GET, sep1 |-> <<SP>>, target |-> <<"/">>,
     sep2 |-> <<SP>>, literal |-> S_HTTP, major |-> <<"1">>, dot |-> <<".">>,
     minor |-> <<"1">>, trailing |-> <<>>, term |-> CRLF, rest |-> <<>>]

Replacements ==
    {<<"ws", <<SP>>>>, <<"ws", <<HTAB, SP>>>>, <<"ws", <<LF>>>>,
     <<"method", S_POST>>, <<"method", S_PUT>>, <<"method", S_DELETE>>,
     <<"method", S_OPTIONS>>, <<"method", S_HEAD>>, <<"method", S_TRACE>>,
     <<"method", S_CONNECT>>, <<"method", S_FOO>>, <<"method", S_get>>,
     <<"method", S_Get>>, <<"method", <<>>>>,
     <<"sep1", <<HTAB>>>>, <<"sep1", <<SP, SP>>>>, <<"sep1", <<>>>>,
     <<"target", S_api>>, <<"target", <<>>>>,
     <<"sep2", <<HTAB>>>>, <<"sep2", <<SP, SP>>>>,
     <<"literal", S_http>>, <<"literal", <<>>>>,
     <<"major", <<"0">>>>, <<"major", D_01>>, <<"major", D_10>>,
     <<"major", D_u32max>>, <<"major", D_u32max1>>, <<"major", D_u32max2>>,
     <<"major", D_u64max>>, <<"major", D_u64max1>>, <<"major", <<>>>>,
     <<"dot", <<>>>>,
     <<"minor", <<"0">>>>, <<"minor", D_01>>, <<"minor", D_u32max1>>, <<"minor", <<>>>>,
     <<"trailing", <<SP>>>>, <<"trailing", <<"x">>>>,
     <<"term", <<LF>>>>, <<"term", <<>>>>,
     <<"rest", S_HostHdr>>, <<"rest", S_LfThenCrlf>>, <<"rest", <<LF>>>>}

RECURSIVE ShapesWithin(_)
ShapesWithin(n) ==
    IF n = 0 THEN {CanonicalShape}
    ELSE LET S == ShapesWithin(n - 1)
         IN  S \cup {[sh EXCEPT ![r[1]] = r[2]] : sh \in S, r \in Replacements}

\* "" and "GET /\r\n".
EmptyShape == [f \in DOMAIN CanonicalShape |-> <<>>]

ShortShape ==
    [EmptyShape EXCEPT !.method = S_GET, !.sep1 = <<SP>>, !.target = <<"/">>, !.term = CRLF]

Shapes == ShapesWithin(MaxDefects) \cup {EmptyShape, ShortShape}

ComposedLine(sh) ==
    sh.ws \o sh.method \o sh.sep1 \o sh.target \o sh.sep2 \o sh.literal
        \o sh.major \o sh.dot \o sh.minor \o sh.trailing

Compose(sh) == ComposedLine(sh) \o sh.term \o sh.rest

\* Values handed to the setters.
SetterTargets == {URI(<<"/">>), URI(S_api)}

SetterVersions ==
    {Version(U32(1), U32(0)), Version(U32(2), U32(0)),
     Version(static_cast_unsigned(stoul(D_u32max, UnsignedLimbs).value), U32(10))}

(***************************************************************************)
(* The state of one use of class Request_line by a caller.                 *)
(***************************************************************************)
VARIABLES
    width,      \* limbs of unsigned long in this build (ILP32: 2, LP64: 4)
    pc,         \* "start", "parsed", "failed", "built", "rendered", "reparsed"
    shape,      \* the parts the caller's buffer was composed of
    data,       \* the caller's buffer
    view,       \* the caller's string_view of data, passed by value
    ctor,       \* what the last Request_line(string_view) call did
    fresh,      \* the object is as the constructor left it after parsing data
    obj,        \* the Request_line object the caller holds
    rendered,   \* the bytes of the last to_string()
    reparsed,   \* what Request_line(rendered) did
    DEBUG,      \* whether the build defines DEBUG (server.hpp line 111)
    conn        \* per connection: the state of Server::listen's callbacks

line_vars == <<pc, shape, data, view, ctor, fresh, obj, rendered, reparsed>>

server_vars == <<DEBUG, conn>>

vars == <<width, line_vars, server_vars>>

(***************************************************************************)
(* Server::listen: the callbacks of one accepted connection.               *)
(***************************************************************************)
MaxConnections == 2

Connections == 1..MaxConnections

\* The statuses a route handler leaves in the Response it is given.
RouteStatuses == {200, 404}

\* st: "listening"      no connection accepted yet
\*     "connected"      onConnect ran: the read callback is registered
\*     "unwound"        an exception left the read callback
\*     "write_pending"  the read callback returned with the write in flight
\*     "closed"         conn->close() was called
\* thrown: the exception of Request req{data} ("" when none); dispatched: the
\* route handler was called; status: the status of the response handed to
\* conn->write (0: nothing written); str_alive: the read callback's local
\* str exists; cb_ran, cb_str_alive: the write callback ran, and whether str
\* existed when it did; dangling_read: the callback read str after its end.
NoConnection ==
    [st |-> "listening", thrown |-> "", req |-> DefaultLine, dispatched |-> FALSE,
     status |-> 0, str_alive |-> FALSE, cb_ran |-> FALSE, cb_str_alive |-> FALSE,
     dangling_read |-> FALSE]

ServerIdle ==
    /\ DEBUG = FALSE
    /\ conn = [c \in Connections |-> NoConnection]

NoCall == CtorResult("", DefaultLine, <<>>, <<>>, npos, FALSE)

Init ==
    /\ width \in ULongWidths
    /\ pc = "start"
    /\ shape = EmptyShape
    /\ data = <<>>
    /\ view = <<>>
    /\ ctor = NoCall
    /\ fresh = FALSE
    /\ obj = DefaultLine
    /\ rendered = <<>>
    /\ reparsed = NoCall
    /\ ServerIdle

\* Request_line rl{view}: the caller passes its view by value.
Construct(sh) ==
    /\ pc = "start"
    /\ shape' = sh
    /\ data' = Compose(sh)
    /\ view' = data'
    /\ ctor' = Request_line(view', width)
    /\ pc' = IF ctor'.thrown = "" THEN "parsed" ELSE "failed"
    /\ fresh' = (ctor'.thrown = "")
    /\ obj' = ctor'.value
    /\ UNCHANGED <<width, rendered, reparsed, server_vars>>

\* Request_line rl;
DefaultConstruct ==
    /\ pc = "start"
    /\ pc' = "built"
    /\ obj' = DefaultLine
    /\ UNCHANGED <<width, shape, data, view, ctor, fresh, rendered, reparsed, server_vars>>

\* After a setter the object no longer mirrors a buffer: the caller's buffer
\* and the record of the parse are dropped.
Forget ==
    /\ shape' = EmptyShape
    /\ data' = <<>>
    /\ view' = <<>>
    /\ ctor' = NoCall
    /\ fresh' = FALSE
    /\ rendered' = <<>>
    /\ reparsed' = NoCall

set_method(method) ==
    /\ pc \in {"parsed", "built"}
    /\ obj' = [obj EXCEPT !.method_ = method]
    /\ pc' = "built"
    /\ Forget
    /\ UNCHANGED <<width, server_vars>>

set_uri(uri) ==
    /\ pc \in {"parsed", "built"}
    /\ obj' = [obj EXCEPT !.uri_ = uri]
    /\ pc' = "built"
    /\ Forget
    /\ UNCHANGED <<width, server_vars>>

set_version(version) ==
    /\ pc \in {"parsed", "built"}
    /\ obj' = [obj EXCEPT !.version_ = version]
    /\ pc' = "built"
    /\ Forget
    /\ UNCHANGED <<width, server_vars>>

\* std::string s = rl.to_string();
Render ==
    /\ pc \in {"parsed", "built"}
    /\ rendered' = to_string(obj)
    /\ pc' = "rendered"
    /\ UNCHANGED <<width, shape, data, view, ctor, fresh, obj, reparsed, server_vars>>

\* Request_line again{s};
Reparse ==
    /\ pc = "rendered"
    /\ reparsed' = Request_line(rendered, width)
    /\ pc' = "reparsed"
    /\ UNCHANGED <<width, shape, data, view, ctor, fresh, obj, rendered, server_vars>>

Next ==
    \/ \E sh \in Shapes : Construct(sh)
    \/ DefaultConstruct
    \/ \E m \in Methods : set_method(m)
    \/ \E u \in SetterTargets : set_uri(u)
    \/ \E v \in SetterVersions : set_version(v)
    \/ Render
    \/ Reparse

Spec == Init /\ [][Next]_vars

(***************************************************************************)
(* The connection handler of Server::listen (server.hpp lines 130-151).    *)
(* The transport runs one callback at a time, each to completion.          *)
(***************************************************************************)
\* The buffers a client sends.
ClientShapes ==
    {CanonicalShape,
     [CanonicalShape EXCEPT !.rest = S_HostHdr],
     [CanonicalShape EXCEPT !.method = S_POST, !.target = S_api, !.term = <<LF>>],
     ShortShape,
     [CanonicalShape EXCEPT !.method = S_FOO],
     [CanonicalShape EXCEPT !.term = <<>>, !.rest = <<"x", "y">>],
     [CanonicalShape EXCEPT !.major = D_u64max1]}

LineIdle ==
    /\ pc = "start"
    /\ shape = EmptyShape
    /\ data = <<>>
    /\ view = <<>>
    /\ ctor = NoCall
    /\ fresh = FALSE
    /\ obj = DefaultLine
    /\ rendered = <<>>
    /\ reparsed = NoCall

ServerInit ==
    /\ width \in ULongWidths
    /\ LineIdle
    /\ DEBUG \in BOOLEAN
    /\ conn = [c \in Connections |-> NoConnection]

\* Line 132: the onConnect callback registers the read callback.
OnConnect(c) ==
    /\ conn[c].st = "listening"
    /\ conn' = [conn EXCEPT ![c].st = "connected"]
    /\ UNCHANGED <<width, line_vars, DEBUG>>

\* Request req{std::move(data)}: the request line is parsed by
\* Request_line(string_view); its exception leaves the Request constructor.
Request(bytes, w) == Request_line(bytes, w)

\* Lines 146-149, the completion callback of conn->write: debug() reads str
\* (only a DEBUG build evaluates it), then the connection is closed.
WriteCallback(k, alive) ==
    [k EXCEPT !.cb_ran = TRUE,
              !.cb_str_alive = alive,
              !.dangling_read = DEBUG /\ ~alive,
              !.st = "closed"]

\* What the read callback does after the Request was constructed, lines
\* 139-149: the route handler is looked up and called, the response is
\* serialized into the local str and handed to conn->write.
Respond(k, line, status) ==
    [k EXCEPT !.req = line, !.dispatched = TRUE, !.status = status, !.str_alive = TRUE]

\* Lines 133-150: the read callback, from the received bytes to its return.
\* The write either completes inside conn->write, whose callback then runs
\* before the read callback returns, or it is left in flight.  The local
\* str ends with the read callback.
ReadCallback(c, sh, inside) ==
    /\ conn[c].st = "connected"
    /\ LET r == Request(Compose(sh), width)
       IN  IF r.thrown # ""
           THEN conn' = [conn EXCEPT ![c].st = "unwound", ![c].thrown = r.thrown]
           ELSE \E s \in RouteStatuses :
                   LET k == Respond(conn[c], r.value, s)
                   IN  IF inside
                       THEN conn' = [conn EXCEPT ![c] =
                                        [WriteCallback(k, k.str_alive) EXCEPT !.str_alive = FALSE]]
                       ELSE conn' = [conn EXCEPT ![c] =
                                        [k EXCEPT !.st = "write_pending", !.str_alive = FALSE]]
    /\ UNCHANGED <<width, line_vars, DEBUG>>

\* The transport completes a write that was left in flight.
WriteComplete(c) ==
    /\ conn[c].st = "write_pending"
    /\ conn' = [conn EXCEPT ![c] = WriteCallback(conn[c], conn[c].str_alive)]
    /\ UNCHANGED <<width, line_vars, DEBUG>>

ServerNext ==
    \/ \E c \in Connections : OnConnect(c)
    \/ \E c \in Connections, sh \in ClientShapes, inside \in BOOLEAN : ReadCallback(c, sh, inside)
    \/ \E c \in Connections : WriteComplete(c)

ServerSpec == ServerInit /\ [][ServerNext]_vars

(***************************************************************************)
(* The error kinds of the specification, by the exception that reports     *)
(* them: the three messages of Request_line_error (lines 175, 190, 203),   *)
(* the failure of method::code and std::out_of_range of std::stoul.        *)
(***************************************************************************)
InputTooShort == "Invalid request: "

MissingLineTerminator == "Invalid line-ending"

GrammarMismatch == "Invalid request line: "

UnknownMethod == "UnknownMethod"

InvalidVersionNumber == "std::out_of_range"

(***************************************************************************)
(* Reference notions the properties are stated with, defined on the bytes  *)
(* alone.  Offsets are 0-based.                                            *)
(***************************************************************************)
\* The constructor has run on data; the object, if any, is as it left it.
CtorRan == pc = "failed" \/ fresh

CrlfAt(s, i) == i + 2 <= Len(s) /\ s[i + 1] = CR /\ s[i + 2] = LF

LfAt(s, i) == i + 1 <= Len(s) /\ s[i + 1] = LF

FirstCrlfAt(s, i) == CrlfAt(s, i) /\ \A j \in 0..(i - 1) : ~CrlfAt(s, j)

FirstLfAt(s, i) == LfAt(s, i) /\ \A j \in 0..(i - 1) : ~LfAt(s, j)

NoCrlf(s) == \A j \in 0..Len(s) : ~CrlfAt(s, j)

NoLf(s) == \A j \in 0..Len(s) : ~LfAt(s, j)

\* Offset and length of the terminator the specification names: the first
\* "\r\n" of the buffer, else the first "\n".
TerminatorStart(s) ==
    IF ~NoCrlf(s) THEN CHOOSE i \in 0..Len(s) : FirstCrlfAt(s, i)
    ELSE CHOOSE i \in 0..Len(s) : FirstLfAt(s, i)

TerminatorLength(s) == IF ~NoCrlf(s) THEN 2 ELSE 1

ResumeOffset(s) == TerminatorStart(s) + TerminatorLength(s)

\* A digit run without its leading zeros (one digit is kept).
RECURSIVE StripZeros(_)
StripZeros(run) ==
    IF Len(run) >= 2 /\ Head(run) = "0" THEN StripZeros(Tail(run)) ELSE run

\* a <= b for two digit runs of the same length.
DigitsLeq(a, b) ==
    \/ a = b
    \/ \E i \in 1..Len(a) :
          /\ DigitVal(a[i]) < DigitVal(b[i])
          /\ \A j \in 1..(i - 1) : a[j] = b[j]

\* The run denotes a number of at most 2^32 - 1.
Fits32(run) ==
    LET s == StripZeros(run)
    IN  Len(s) < Len(D_u32max) \/ (Len(s) = Len(D_u32max) /\ DigitsLeq(s, D_u32max))

\* The token a line starts with: the bytes from the first byte that is not
\* white space up to the first space after it.
LeadingToken(line) ==
    LET a == SpanEnd(line, 1, WhiteSpace, TRUE)
    IN  SubSeq(line, a, SpanEnd(line, a, {SP}, FALSE) - 1)

\* The positional form: after optional leading white space a token, one
\* space, a target without white space, one space, "HTTP/", digits, ".",
\* digits, and nothing more.
PositionalForm(line) ==
    \E a \in 1..Len(line) :
        /\ \A i \in 1..a : (line[i] \in WhiteSpace) <=> (i < a)
        /\ \E b \in (a + 1)..Len(line) :
              /\ line[b] = SP
              /\ \A i \in a..(b - 1) : line[i] \notin WhiteSpace
              /\ \E c \in (b + 2)..Len(line) :
                    /\ line[c] = SP
                    /\ \A i \in (b + 1)..(c - 1) : line[i] \notin WhiteSpace
                    /\ c + 5 <= Len(line)
                    /\ SubSeq(line, c + 1, c + 5) = S_HTTP
                    /\ \E d \in (c + 7)..(Len(line) - 1) :
                          /\ line[d] = "."
                          /\ \A i \in (c + 6)..(d - 1) : line[i] \in DecimalDigits
                          /\ \A i \in (d + 1)..Len(line) : line[i] \in DecimalDigits

KnownTokens == {method_str(m) : m \in Methods}

(***************************************************************************)
(* Properties of the constructor Request_line(string_view), of to_string   *)
(* and of the setters, under Spec.                                         *)
(***************************************************************************)
\* C1: an input of fewer than 15 bytes, the empty input included, fails with
\* InputTooShort whether or not it holds a terminator or matches the grammar:
\* never with MissingLineTerminator or GrammarMismatch.
C1_ShortInputIsTooShort ==
    (CtorRan /\ Len(data) < 15) => (pc = "failed" /\ ctor.thrown = InputTooShort)

\* A short input without any terminator was rejected as too short.
C1_Witness ==
    /\ pc = "failed"
    /\ Len(data) \in 1..14
    /\ NoLf(data)
    /\ ctor.thrown = InputTooShort

\* C2: for an input of at least 15 bytes the line handed to the grammar match
\* is the bytes before the first "\r\n" of the whole buffer, also when a bare
\* "\n" comes earlier; the first bare "\n" is the terminator only when the
\* buffer holds no "\r\n"; with neither the parse fails with
\* MissingLineTerminator.
C2_TerminatorDiscovery ==
    (CtorRan /\ Len(data) >= 15) =>
        /\ \A i \in 0..Len(data) :
              FirstCrlfAt(data, i) =>
                  /\ ctor.thrown # MissingLineTerminator
                  /\ ctor.request_line = SubSeq(data, 1, i)
                  /\ ctor.is_canonical_line_ending
        /\ \A i \in 0..Len(data) :
              (NoCrlf(data) /\ FirstLfAt(data, i)) =>
                  /\ ctor.thrown # MissingLineTerminator
                  /\ ctor.request_line = SubSeq(data, 1, i)
                  /\ ~ctor.is_canonical_line_ending
        /\ (NoCrlf(data) /\ NoLf(data)) => ctor.thrown = MissingLineTerminator

\* A parse succeeded on the line before a "\r\n" that a bare "\n" precedes.
C2_Witness ==
    /\ fresh
    /\ \E i \in 0..Len(data), j \in 0..Len(data) :
          /\ FirstLfAt(data, i)
          /\ FirstCrlfAt(data, j)
          /\ i < j
          /\ ctor.request_line = SubSeq(data, 1, j)

\* C3: after a successful parse the caller holds, with the RequestLine, the
\* resume offset: its view of the buffer is the bytes from the start of the
\* terminator plus the terminator's length onward, an offset of at most the
\* buffer length.
C3_CallerHoldsResumeOffset ==
    fresh =>
        /\ ResumeOffset(data) <= Len(data)
        /\ view = substr_from(data, ResumeOffset(data))

ConsumedCanonical(s) == SubSeq(s, 1, TerminatorStart(s)) \o CRLF

\* C5 as stated: the rendering of a parsed line is the consumed bytes, with a
\* final bare "\n" replaced by "\r\n".
C5_RoundTrip ==
    (fresh /\ pc = "rendered") => rendered = ConsumedCanonical(data)

\* The line starts with its method and both digit runs are the decimal
\* forms, without leading zeros, of numbers of at most 2^32 - 1.
CanonicalLine(line) ==
    LET m == regex_match(line)
    IN  /\ line[1] \notin WhiteSpace
        /\ StripZeros(m.m3) = m.m3 /\ Fits32(m.m3)
        /\ StripZeros(m.m4) = m.m4 /\ Fits32(m.m4)

\* C5 as amended: the rendering of a parsed line is the consumed bytes with
\* the terminator made canonical exactly when the line has no leading white
\* space and its digit runs are canonical; the rendering is always the
\* method, the target and the two numbers in decimal, "\r\n"-terminated.
C5_RoundTripOfCanonicalLines ==
    (fresh /\ pc = "rendered") =>
        /\ (rendered = ConsumedCanonical(data)) <=> CanonicalLine(ctor.request_line)
        /\ LET m == regex_match(ctor.request_line)
           IN  rendered = m.m1 \o <<SP>> \o m.m2 \o <<SP>> \o S_HTTP
                              \o unsigned_to_stream(obj.version_.major) \o <<".">>
                              \o unsigned_to_stream(obj.version_.minor) \o CRLF

\* A line ended by a bare "\n" was parsed and rendered with "\r\n".
C5_Witness ==
    /\ fresh
    /\ pc = "rendered"
    /\ ~ctor.is_canonical_line_ending
    /\ shape.method = S_POST
    /\ rendered = ctor.request_line \o CRLF

\* C6: parsing the bytes to_string produces, for an object reached by default
\* construction, by a parse or by any setters, succeeds and yields the same
\* method, target and version.
C6_RenderThenParse ==
    pc = "reparsed" =>
        /\ reparsed.thrown = ""
        /\ reparsed.value.method_ = obj.method_
        /\ reparsed.value.uri_ = obj.uri_
        /\ reparsed.value.version_ = obj.version_

\* An object built with the setters was rendered and parsed back.
C6_Witness ==
    /\ pc = "reparsed"
    /\ ~fresh
    /\ obj.method_ = "CONNECT"
    /\ obj.uri_ = URI(S_api)
    /\ obj.version_.minor = U32(10)
    /\ reparsed.value = obj

\* C7: a digit run denoting more than 2^32 - 1 makes the parse fail with
\* InvalidVersionNumber, and a successful parse never holds a major or minor
\* other than the number its digit run denotes.
C7_NoWrapAround ==
    (CtorRan /\ Len(data) >= 15) =>
        LET m == regex_match(ctor.request_line)
        IN  m.matched =>
              /\ (~Fits32(m.m3) \/ ~Fits32(m.m4)) =>
                    (pc = "failed" /\ ctor.thrown = InvalidVersionNumber)
              /\ fresh =>
                    /\ unsigned_to_stream(obj.version_.major) = StripZeros(m.m3)
                    /\ unsigned_to_stream(obj.version_.minor) = StripZeros(m.m4)

\* The line the constructor matched is the one the parts compose, and the
\* input is long enough and has a terminator.
ComposedLineMatched ==
    /\ CtorRan
    /\ Len(data) >= 15
    /\ ~(NoCrlf(data) /\ NoLf(data))
    /\ ctor.request_line = ComposedLine(shape)

\* A tab or several spaces as a separator, an empty target, a missing or
\* differently cased "HTTP/", a lower- or mixed-case method, or a byte after
\* the minor digit run.
SeparatorDefect(sh) ==
    \/ sh.sep1 \in {<<HTAB>>, <<SP, SP>>}
    \/ sh.sep2 \in {<<HTAB>>, <<SP, SP>>}
    \/ sh.target = <<>>
    \/ sh.literal # S_HTTP
    \/ sh.method \in {S_get, S_Get}
    \/ sh.trailing # <<>>

\* C9: with at least 15 bytes and a terminator the parse fails with
\* GrammarMismatch whenever the line has one of the separator defects; and
\* leading white space before a line that parses without it is accepted and
\* leaves the method, the target and the version as they are without it.
C9_SeparatorStrictness ==
    ComposedLineMatched =>
        /\ SeparatorDefect(shape) => (pc = "failed" /\ ctor.thrown = GrammarMismatch)
        /\ LET bare == Request_line(Compose([shape EXCEPT !.ws = <<>>]), width)
           IN  (shape.ws # <<>> /\ bare.thrown = "") =>
                   (fresh /\ ctor.value = bare.value)

\* A line with a tab between method and target was rejected.
C9_Witness ==
    /\ ComposedLineMatched
    /\ shape.sep1 = <<HTAB>>
    /\ shape.ws = <<HTAB, SP>>
    /\ pc = "failed"
    /\ ctor.thrown = GrammarMismatch

(***************************************************************************)
(* Properties of the connection handler, under ServerSpec.                 *)
(***************************************************************************)
\* C8: when the parse of the received bytes fails, a 400-class response is
\* written to the connection and the connection is closed; the connection is
\* never left open without a response, and no route is dispatched.
C8_ParseFailureAnswered ==
    \A c \in Connections :
        conn[c].thrown # "" =>
            /\ conn[c].status \in 400..499
            /\ conn[c].st = "closed"
            /\ ~conn[c].dispatched

\* C10: whenever the write callback runs, the string str it captured by
\* reference still exists, and the connection is closed only after the write
\* of the response completed.
C10_StrOutlivesWrite ==
    \A c \in Connections :
        /\ conn[c].cb_ran => conn[c].cb_str_alive
        /\ conn[c].st = "closed" => conn[c].cb_ran

=============================================================================
